---- MODULE Spec2Model ----
(***************************************************************************)
(* House-buyer calculation engines (src/house_buyer/stamp_duty.py and      *)
(* src/house_buyer/mortgage.py) as a state machine.  The engines are pure  *)
(* functions: every action is one call of an engine with arguments drawn   *)
(* from bounded sets; the state records the engine called last, its        *)
(* arguments, what it returned (or the exception it raised) and the        *)
(* outcomes of the base-rate fetches made while it ran.                    *)
(*                                                                         *)
(* Units.  Whole pounds are integers, as in the code.  Python floats are   *)
(* represented by scaled integers:                                         *)
(*   - SDLT rates and the surcharge in whole percent (0.05 -> 5);          *)
(*   - deposit percent and LTV in quarters of a percent (10.0 -> 40), all  *)
(*     of which are exact binary floats, so int(price * pct / 100) is the  *)
(*     exact floor;                                                        *)
(*   - interest rates in hundredths of a percent (4.50 -> 450);            *)
(*   - repayments in pence, computed in fixed point.                       *)
(***************************************************************************)
EXTENDS Integers, Sequences, FiniteSets, TLC

VARIABLES op, args, result, fetches, previous

vars == <<op, args, result, fetches, previous>>

(***************************************************************************)
(* Bounds of the model.                                                    *)
(***************************************************************************)
MaxDelta == 21

Min(a, b) == IF a <= b THEN a ELSE b

Max(a, b) == IF a >= b THEN a ELSE b

(***************************************************************************)
(* stamp_duty.py: band tables.  A band is (threshold, rate); float("inf")  *)
(* is the largest machine integer of the model.                            *)
(***************************************************************************)
inf == 2147483647

SDLT_BANDS ==
    << [threshold |-> 250000, rate |-> 0],
       [threshold |-> 925000, rate |-> 5],
       [threshold |-> 1500000, rate |-> 10],
       [threshold |-> inf, rate |-> 12] >>

SDLT_FTB_BANDS ==
    << [threshold |-> 425000, rate |-> 0],
       [threshold |-> 625000, rate |-> 5] >>

SDLT_ADDITIONAL_SURCHARGE == 5

(***************************************************************************)
(* An exception leaving an engine: the call returns no result.             *)
(***************************************************************************)
Raise(exception) == [raised |-> exception]

Returned(r) == r.raised = "none"

(* A variant of int_of_product that rounds the product up, as            *)
(* math.ceil would, instead of truncating it.                              *)
int_of_product_rounded_up(x, ratePercent) == (x * ratePercent + 99) \div 100

(* int(x * rate) for an integer x >= 0 and a rate given in percent: Python *)
(* int() truncates, and the float product of an amount below 2^31 with     *)
(* 0.05, 0.10 or 0.12 truncates to the exact floor.                        *)
int_of_product(x, ratePercent) == (x * ratePercent) \div 100

(* The table selected at lines 58-60. *)
select_bands(price, first_time_buyer) ==
    IF first_time_buyer /\ price <= 625000 THEN SDLT_FTB_BANDS ELSE SDLT_BANDS

(* int(threshold) of line 74: int() of float("inf") raises OverflowError.  *)
int_of_float(x) ==
    IF x = inf THEN Raise("OverflowError")
               ELSE [raised |-> "none", value |-> x]

(* The label of a band line, f"£{prev_threshold:,}–£{int(threshold):,} @   *)
(* {rate*100:.0f}%", as the values it shows.                               *)
band_label(prev_threshold, threshold, rate) ==
    [desc |-> "band", lo |-> prev_threshold, hi |-> threshold, rate |-> rate]

(* The label of the surcharge line, which shows the surcharge rate.        *)
surcharge_label ==
    [desc |-> "surcharge", lo |-> 0, hi |-> 0, rate |-> SDLT_ADDITIONAL_SURCHARGE]

(* The loop of lines 66-76 from band i on, with the loop's variables.      *)
RECURSIVE walk_bands(_, _, _, _, _, _)
walk_bands(bands, i, price, prev_threshold, total, breakdown) ==
    IF i > Len(bands) \/ price <= prev_threshold
    THEN [raised |-> "none", total |-> total, breakdown |-> breakdown]
    ELSE LET threshold == bands[i].threshold
             rate == bands[i].rate
             taxable == Min(price, threshold) - prev_threshold
             tax == int_of_product(taxable, rate)
             shown == int_of_float(threshold)
         IN  IF taxable <= 0
             THEN [raised |-> "none", total |-> total, breakdown |-> breakdown]
             ELSE IF ~(rate > 0 \/ taxable > 0)
             THEN walk_bands(bands, i + 1, price, threshold, total + tax, breakdown)
             ELSE IF ~Returned(shown)
             THEN shown
             ELSE walk_bands(bands, i + 1, price, threshold, total + tax,
                             Append(breakdown,
                                    <<band_label(prev_threshold, shown.value, rate),
                                      tax>>))

(* Lines 78-81: the surcharge on the full price and its breakdown line.    *)
apply_surcharge(walk, price, additional_property) ==
    IF additional_property
    THEN LET surcharge == int_of_product(price, SDLT_ADDITIONAL_SURCHARGE)
         IN  [walk EXCEPT !.total = @ + surcharge,
                          !.breakdown = Append(@, <<surcharge_label, surcharge>>)]
    ELSE walk

(* Line 83: total / price * 100 as the fraction num/den, 0.0 at price 0.   *)
effective_rate_of(total, price) ==
    IF price > 0 THEN [num |-> total * 100, den |-> price]
                 ELSE [num |-> 0, den |-> 1]

calculate_stamp_duty(price, first_time_buyer, additional_property) ==
    LET bands == select_bands(price, first_time_buyer)
        walk == walk_bands(bands, 1, price, 0, 0, <<>>)
    IN  IF ~Returned(walk)
        THEN walk
        ELSE LET w == apply_surcharge(walk, price, additional_property)
             IN  [raised |-> "none",
                  property_price |-> price,
                  stamp_duty |-> w.total,
                  effective_rate |-> effective_rate_of(w.total, price),
                  is_first_time_buyer |-> first_time_buyer,
                  is_additional_property |-> additional_property,
                  breakdown |-> w.breakdown]

(***************************************************************************)
(* mortgage.py.  Float representation: PctScale units per percent for the  *)
(* deposit percent and the LTV, RateScale units per percent for interest   *)
(* rates, MoneyScale units per pound for repayments, FixedOne for 1.0 in   *)
(* the fixed-point evaluation of the annuity formula.  A float amount of   *)
(* money is the mixed number whole + num/den (0 <= num < den) of units of  *)
(* 1/MoneyScale pounds, so that multiplying a repayment by the number of   *)
(* payments loses nothing.                                                 *)
(***************************************************************************)
PctScale == 4

RateScale == 100

MoneyScale == 100

FixedOne == 60000000

LENDER_SPREADS ==
    [best_fixed_2yr |-> 75, average_fixed_2yr |-> 125, best_fixed_5yr |-> 90,
     average_fixed_5yr |-> 140, standard_variable |-> 225, tracker |-> 50]

(* LTV_PREMIUM as (threshold in percent, premium) in ascending key order,   *)
(* which is the order sorted(LTV_PREMIUM.keys()) walks.                     *)
LTV_PREMIUM ==
    << [threshold |-> 60, premium |-> 0], [threshold |-> 75, premium |-> 10],
       [threshold |-> 80, premium |-> 20], [threshold |-> 85, premium |-> 40],
       [threshold |-> 90, premium |-> 65], [threshold |-> 95, premium |-> 100] >>

(* Optional[float]: None or a value.                                       *)
None == [given |-> FALSE, value |-> 0]

Some(v) == [given |-> TRUE, value |-> v]

(* The loop of get_ltv_premium from table entry i on.                      *)
RECURSIVE ltv_premium_from(_, _)
ltv_premium_from(i, ltv_percent) ==
    IF i > Len(LTV_PREMIUM)
    THEN LTV_PREMIUM[Len(LTV_PREMIUM)].premium
    ELSE IF ltv_percent <= LTV_PREMIUM[i].threshold * PctScale
         THEN LTV_PREMIUM[i].premium
         ELSE ltv_premium_from(i + 1, ltv_percent)

(* A variant that never looks at the lowest threshold.                     *)
get_ltv_premium_without_first_tier(ltv_percent) == ltv_premium_from(2, ltv_percent)

get_ltv_premium(ltv_percent) == ltv_premium_from(1, ltv_percent)

(* a * b = q * c + r with 0 <= r < c, for a, b >= 0 and c > 0, taking b   *)
(* three bits at a time so that no intermediate value exceeds 15 * c.       *)
RECURSIVE mul_div_qr(_, _, _)
mul_div_qr(a, b, c) ==
    IF b = 0
    THEN [q |-> 0, r |-> 0]
    ELSE LET h == mul_div_qr(a, b \div 8, c)
             digit == b % 8
             rr == 8 * h.r + digit * (a % c)
         IN  [q |-> 8 * h.q + digit * (a \div c) + rr \div c, r |-> rr % c]

Abs(x) == IF x < 0 THEN -x ELSE x

Sign(x) == IF x < 0 THEN -1 ELSE 1

(* a * b / c truncated toward zero, for any signs and c # 0.               *)
mul_div(a, b, c) ==
    Sign(a) * Sign(b) * Sign(c) * mul_div_qr(Abs(a), Abs(b), Abs(c)).q

(* x ** n in fixed point, x and the result scaled by FixedOne.             *)
RECURSIVE fixed_pow(_, _)
fixed_pow(x, n) ==
    IF n = 0 THEN FixedOne
    ELSE IF n % 2 = 0
         THEN LET h == fixed_pow(x, n \div 2) IN mul_div(h, h, FixedOne)
         ELSE mul_div(x, fixed_pow(x, n - 1), FixedOne)

(* As mul_div_qr, taking b one bit at a time: no intermediate value         *)
(* exceeds 3 * c, for the wide divisor growth - 1.                          *)
RECURSIVE wide_mul_div_qr(_, _, _)
wide_mul_div_qr(a, b, c) ==
    IF b = 0
    THEN [q |-> 0, r |-> 0]
    ELSE LET h == wide_mul_div_qr(a, b \div 2, c)
             bit == b % 2
             rr == 2 * h.r + bit * (a % c)
         IN  [q |-> 2 * h.q + bit * (a \div c) + rr \div c, r |-> rr % c]

(* The float a * b / c as a mixed number, for any signs and c # 0.          *)
float_mul_div(a, b, c) ==
    LET qr == wide_mul_div_qr(Abs(a), Abs(b), Abs(c))
    IN  IF Sign(a) * Sign(b) * Sign(c) > 0 \/ (qr.q = 0 /\ qr.r = 0)
        THEN [whole |-> qr.q, num |-> qr.r, den |-> Abs(c)]
        ELSE IF qr.r = 0
             THEN [whole |-> -qr.q, num |-> 0, den |-> Abs(c)]
             ELSE [whole |-> -qr.q - 1, num |-> Abs(c) - qr.r, den |-> Abs(c)]

(* The float x * k for a mixed number x and an integer k >= 0.              *)
float_times(x, k) ==
    LET qr == wide_mul_div_qr(x.num, k, x.den)
    IN  [whole |-> x.whole * k + qr.q, num |-> qr.r, den |-> x.den]

(* The float x - k for a mixed number x and an integer k.                   *)
float_minus(x, k) == [x EXCEPT !.whole = @ - k]

(* x < k and x >= 0 for a mixed number x and an integer k.                  *)
float_less(x, k) == x.whole < k

float_non_negative(x) == x.whole >= 0

(* A float rate: hundredths of a percent plus, when tiny, a positive        *)
(* remainder so small that adding the monthly rate to 1.0 rounds back to   *)
(* 1.0 (in the code, an annual rate below about 1.3e-13 percent).          *)
Rate(hundredths) == [hundredths |-> hundredths, tiny |-> FALSE]

TinyRate == [hundredths |-> 0, tiny |-> TRUE]

(* calculate_monthly_repayment: loan in units of 1/MoneyScale pounds, the   *)
(* rate a float rate; the result a mixed number of the loan's units, or     *)
(* ZeroDivisionError where the code divides by zero.  The annuity branch is *)
(* loan * (monthly_rate * growth) / (growth - 1), in the code's order; the  *)
(* tiny part of a rate is lost in 1 + monthly_rate, as it is in the float.  *)
calculate_monthly_repayment(loan, annual_rate_pct, term_years) ==
    IF annual_rate_pct = Rate(0)
    THEN IF term_years * 12 = 0
         THEN Raise("ZeroDivisionError")
         ELSE [raised |-> "none", value |-> float_mul_div(loan, 1, term_years * 12)]
    ELSE LET monthly_rate == annual_rate_pct.hundredths
                                 * (FixedOne \div (RateScale * 100 * 12))
             n_payments == term_years * 12
             growth == fixed_pow(FixedOne + monthly_rate, n_payments)
         IN  IF growth - FixedOne = 0
             THEN Raise("ZeroDivisionError")
             ELSE [raised |-> "none",
                   value |-> float_mul_div(loan,
                                           mul_div(monthly_rate, growth, FixedOne),
                                           growth - FixedOne)]

(* A variant of clamp_deposit_percent that forgets the upper limit.        *)
clamp_deposit_percent_lower_only(deposit_percent) ==
    IF deposit_percent < 5 * PctScale THEN 5 * PctScale ELSE deposit_percent

(* Line 136: max(5.0, min(100.0, deposit_percent)).                        *)
clamp_deposit_percent(deposit_percent) ==
    Max(5 * PctScale, Min(100 * PctScale, deposit_percent))

(* A variant of deposit_of that rounds to the nearest pound, as round()    *)
(* would, instead of truncating.                                           *)
deposit_of_rounded(property_price, deposit_percent) ==
    (property_price * deposit_percent + 50 * PctScale) \div (100 * PctScale)

(* Line 138: int(property_price * deposit_percent / 100).                  *)
deposit_of(property_price, deposit_percent) ==
    (property_price * deposit_percent) \div (100 * PctScale)

(* Line 139. *)
loan_of(property_price, deposit_amount) == property_price - deposit_amount

(* Line 140. *)
ltv_of(deposit_percent) == 100 * PctScale - deposit_percent

(* Lines 142-148: fetched is what get_boe_base_rate() returns if called.   *)
resolve_base_rate(base_rate_override, fetched) ==
    IF base_rate_override.given
    THEN base_rate_override.value
    ELSE IF fetched.given THEN fetched.value ELSE 450

(* A variant whose fallback is the spread of "tracker".                    *)
spread_of_fallback_tracker(rate_type) ==
    IF rate_type \in DOMAIN LENDER_SPREADS
    THEN LENDER_SPREADS[rate_type]
    ELSE LENDER_SPREADS["tracker"]

(* Line 150: LENDER_SPREADS.get(rate_type, LENDER_SPREADS["average_fixed_2yr"]) *)
spread_of(rate_type) ==
    IF rate_type \in DOMAIN LENDER_SPREADS
    THEN LENDER_SPREADS[rate_type]
    ELSE LENDER_SPREADS["average_fixed_2yr"]

(* A variant of total_repayment_of that multiplies by the years only.      *)
total_repayment_per_year(monthly, term_years) == float_times(monthly, term_years)

(* Line 155: monthly * term_years * 12.                                     *)
total_repayment_of(monthly, term_years) == float_times(monthly, term_years * 12)

calculate_mortgage(property_price, deposit_percent_in, term_years, rate_type, base_rate_override, fetched) ==
    LET deposit_percent == clamp_deposit_percent(deposit_percent_in)
        deposit_amount == deposit_of(property_price, deposit_percent)
        loan_amount == loan_of(property_price, deposit_amount)
        ltv == ltv_of(deposit_percent)
        base_rate == resolve_base_rate(base_rate_override, fetched)
        spread == spread_of(rate_type)
        ltv_prem == get_ltv_premium(ltv)
        interest_rate == base_rate + spread + ltv_prem
        monthly == calculate_monthly_repayment(loan_amount * MoneyScale,
                                               Rate(interest_rate), term_years)
        total == total_repayment_of(monthly.value, term_years)
    IN  IF ~Returned(monthly)
        THEN monthly
        ELSE [raised |-> "none",
              property_price |-> property_price,
              deposit_amount |-> deposit_amount,
              deposit_percent |-> deposit_percent,
              loan_amount |-> loan_amount,
              interest_rate |-> interest_rate,
              base_rate |-> base_rate,
              lender_spread |-> spread,
              ltv_premium |-> ltv_prem,
              term_years |-> term_years,
              monthly_repayment |-> monthly.value,
              total_repayment |-> total,
              total_interest |-> float_minus(total, loan_amount * MoneyScale),
              rate_type |-> rate_type]

(***************************************************************************)
(* check_affordability (stamp_duty.py).  The income multiple is in units   *)
(* of 1/MultipleScale; incomes and loans are whole pounds.                 *)
(***************************************************************************)
MultipleScale == 4

(* int() of a float: truncation toward zero.                               *)
int_of_quotient(a, b) == Sign(a) * Sign(b) * (Abs(a) \div Abs(b))

(* A variant that rounds a fractional cap up to the next pound.            *)
max_borrowing_rounded_up(annual_income, income_multiple) ==
    (annual_income * income_multiple + MultipleScale - 1) \div MultipleScale

(* Line 145: int(annual_income * income_multiple).                         *)
max_borrowing_of(annual_income, income_multiple) ==
    int_of_quotient(annual_income * income_multiple, MultipleScale)

(* x / k for a float x and whole k > 0, exactly: whole + (num / den) with  *)
(* num itself a float below den.                                           *)
float_div(x, k) ==
    [whole |-> x.whole \div k,
     num |-> [whole |-> x.whole % k, num |-> x.num, den |-> x.den],
     den |-> k]

(* A variant that reports a ratio of 0 for an income of 0.                 *)
ratio_of_guarded(monthly, annual_income) ==
    IF annual_income = 0
    THEN [raised |-> "none", value |-> float_div(float_times(monthly, 0), 1)]
    ELSE [raised |-> "none",
          value |-> float_div(float_times(monthly, (12 * 100) \div MoneyScale),
                              annual_income)]

(* Lines 146, 149 and 153: (monthly / (annual_income / 12)) * 100, in      *)
(* percent, for monthly in units of 1/MoneyScale pounds.                   *)
ratio_of(monthly, annual_income) ==
    IF annual_income = 0
    THEN Raise("ZeroDivisionError")
    ELSE [raised |-> "none",
          value |-> float_div(float_times(monthly, (12 * 100) \div MoneyScale),
                              annual_income)]

(* A variant that adds the default buffer whatever buffer is passed.       *)
stress_rate_default_buffer(interest_rate, stress_buffer) == interest_rate + 300

(* Line 151.                                                               *)
stress_rate_of(interest_rate, stress_buffer) == interest_rate + stress_buffer

(* A variant that lets a ratio of exactly 40 pass.                         *)
passes_affordability_inclusive(loan_amount, max_borrowing, ratio) ==
    /\ loan_amount <= max_borrowing
    /\ \/ float_less(ratio, 40)
       \/ ratio.whole = 40 /\ ratio.num.whole = 0 /\ ratio.num.num = 0

(* Line 166.                                                               *)
passes_affordability_of(loan_amount, max_borrowing, ratio) ==
    loan_amount <= max_borrowing /\ float_less(ratio, 40)

(* Line 165.                                                               *)
passes_stress_test_of(stress_ratio) == float_less(stress_ratio, 45)

check_affordability(annual_income, loan_amount, interest_rate, term_years, income_multiple, stress_buffer) ==
    LET max_borrowing == max_borrowing_of(annual_income, income_multiple)
        monthly_income == float_mul_div(annual_income, 1, 12)
        monthly == calculate_monthly_repayment(loan_amount * MoneyScale,
                                               Rate(interest_rate), term_years)
        ratio == ratio_of(monthly.value, annual_income)
        stress_rate == stress_rate_of(interest_rate, stress_buffer)
        stress_monthly == calculate_monthly_repayment(loan_amount * MoneyScale,
                                                      Rate(stress_rate), term_years)
        stress_ratio == ratio_of(stress_monthly.value, annual_income)
    IN  IF ~Returned(monthly) THEN monthly
        ELSE IF ~Returned(ratio) THEN ratio
        ELSE IF ~Returned(stress_monthly) THEN stress_monthly
        ELSE IF ~Returned(stress_ratio) THEN stress_ratio
        ELSE [raised |-> "none",
              annual_income |-> annual_income,
              max_borrowing |-> max_borrowing,
              income_multiple |-> income_multiple,
              monthly_income |-> monthly_income,
              monthly_repayment |-> monthly.value,
              repayment_to_income |-> ratio.value,
              stress_test_rate |-> stress_rate,
              stress_test_monthly |-> stress_monthly.value,
              stress_test_ratio |-> stress_ratio.value,
              passes_stress_test |-> passes_stress_test_of(stress_ratio.value),
              passes_affordability |->
                  passes_affordability_of(loan_amount, max_borrowing, ratio.value)]

(***************************************************************************)
(* total_purchase_cost (stamp_duty.py).                                    *)
(***************************************************************************)
(* The digits of n >= 0 in groups of three, most significant first, as the *)
(* "," format option writes them.                                          *)
RECURSIVE thousands_groups(_)
thousands_groups(n) ==
    IF n < 1000 THEN <<n>>
    ELSE Append(thousands_groups(n \div 1000), n % 1000)

(* f"£{amount:,}".                                                         *)
format_pounds(amount) ==
    [currency |-> "£", negative |-> amount < 0,
     groups |-> thousands_groups(Abs(amount))]

(* Line 184.                                                               *)
total_upfront_of(deposit, stamp_duty, solicitor_fees, survey_cost, broker_fee) ==
    deposit + stamp_duty + solicitor_fees + survey_cost + broker_fee

total_purchase_cost(property_price, deposit_percent, first_time_buyer, solicitor_fees, survey_cost, broker_fee) ==
    LET deposit == int_of_quotient(property_price * deposit_percent, 100 * PctScale)
        sd == calculate_stamp_duty(property_price, first_time_buyer, FALSE)
        total_upfront == total_upfront_of(deposit, sd.stamp_duty, solicitor_fees,
                                          survey_cost, broker_fee)
    IN  IF ~Returned(sd)
        THEN sd
        ELSE [raised |-> "none",
              property_price |-> property_price,
              deposit |-> deposit,
              stamp_duty |-> sd.stamp_duty,
              solicitor_fees |-> solicitor_fees,
              survey_cost |-> survey_cost,
              broker_fee |-> broker_fee,
              total_upfront |-> total_upfront,
              breakdown |->
                  << <<"Deposit", format_pounds(deposit)>>,
                     <<"Stamp Duty", format_pounds(sd.stamp_duty)>>,
                     <<"Solicitor", format_pounds(solicitor_fees)>>,
                     <<"Survey", format_pounds(survey_cost)>>,
                     <<"Broker Fee", format_pounds(broker_fee)>>,
                     <<"TOTAL", format_pounds(total_upfront)>> >>]

(* A variant of the deposit list with 35 in place of 40 and no 50.         *)
comparison_deposits_shifted == <<5, 10, 15, 20, 25, 30, 35, 40>>

(* Line 178: the deposit percentages of the comparison, in percent.        *)
comparison_deposits == <<5, 10, 15, 20, 25, 30, 40, 50>>

(* The list comprehension of lines 176-179 from entry i on: one            *)
(* calculate_mortgage call per percentage, without a base-rate override,   *)
(* so that each call fetches the base rate itself; fetched[i] is what the  *)
(* i-th fetch returns.  An exception of a call leaves the comprehension.   *)
RECURSIVE comparison_from(_, _, _, _, _, _)
comparison_from(i, property_price, term_years, rate_type, fetched, quotes) ==
    IF i > Len(comparison_deposits)
    THEN [raised |-> "none", quotes |-> quotes]
    ELSE LET quote == calculate_mortgage(property_price,
                                         comparison_deposits[i] * PctScale,
                                         term_years, rate_type, None, fetched[i])
         IN  IF ~Returned(quote)
             THEN quote
             ELSE comparison_from(i + 1, property_price, term_years, rate_type,
                                  fetched, Append(quotes, quote))

deposit_comparison(property_price, term_years, rate_type, fetched) ==
    comparison_from(1, property_price, term_years, rate_type, fetched, <<>>)

(***************************************************************************)
(* _analyse_property (main.py): the all-in-one analysis.  It shows, in     *)
(* this order, the quote, the stamp duty, the affordability check, the     *)
(* purchase costs and the deposit comparison; an exception ends it after   *)
(* the panels already shown.  fetched[1] is what the fetch of the quote    *)
(* returns and fetched[2..9] what the fetches of the comparison return.    *)
(***************************************************************************)
(* The panels shown, in the order of the calls, up to the first call that  *)
(* raises.                                                                 *)
analysis_shown(mortgage, sd, afford, costs, comparison) ==
        IF ~Returned(mortgage)
        THEN [raised |-> mortgage.raised, shown |-> <<>>]
        ELSE IF ~Returned(sd)
        THEN [raised |-> sd.raised, shown |-> <<mortgage>>]
        ELSE IF ~Returned(afford)
        THEN [raised |-> afford.raised, shown |-> <<mortgage, sd>>]
        ELSE IF ~Returned(costs)
        THEN [raised |-> costs.raised, shown |-> <<mortgage, sd, afford>>]
        ELSE IF ~Returned(comparison)
        THEN [raised |-> comparison.raised,
              shown |-> <<mortgage, sd, afford, costs>>]
        ELSE [raised |-> "none",
              shown |-> <<mortgage, sd, afford, costs, comparison>>]

(* Line 315: the affordability check of the quoted loan at the quoted rate. *)
afford_of(mortgage, income, term) ==
    check_affordability(income, mortgage.loan_amount, mortgage.interest_rate,
                        term, 18, 300)

(* Lines 311-331: the calls that follow the quote.                         *)
analysis_after_quote(mortgage, price, deposit_pct, income, ftb, term, fetched) ==
    analysis_shown(mortgage,
                   calculate_stamp_duty(price, ftb, FALSE),
                   afford_of(mortgage, income, term),
                   total_purchase_cost(price, deposit_pct, ftb, 1500, 500, 500),
                   deposit_comparison(price, term, "average_fixed_2yr",
                                      [i \in 1..Len(comparison_deposits)
                                          |-> fetched[i + 1]]))

analyse_property(price, deposit_pct, income, ftb, term, fetched) ==
    analysis_after_quote(calculate_mortgage(price, deposit_pct, term,
                                            "average_fixed_2yr", None,
                                            fetched[1]),
                         price, deposit_pct, income, ftb, term, fetched)

(* The fetches the analysis performed: one by the quote and, when the      *)
(* comparison was reached, eight more.                                     *)
analysis_fetches(analysis, fetched) ==
    IF Len(analysis.shown) >= 4 THEN fetched ELSE <<fetched[1]>>

(***************************************************************************)
(* property_feeds.py.  An address is its lower-case, stripped text plus    *)
(* two marks: whether the text as received has upper-case letters and      *)
(* whether it has surrounding white space.  Optional[int] fields are None  *)
(* or Some(v).  Keywords, and the words of a listing's title, description  *)
(* and address, are sets of lower-case words.                              *)
(***************************************************************************)
Address(text, upper, padded) == [text |-> text, upper |-> upper, padded |-> padded]

(* l.address.lower().strip()                                               *)
lower_strip(address) == [address EXCEPT !.upper = FALSE, !.padded = FALSE]

(* Truth value of an Optional[int]: None and 0 are false.                  *)
truthy(optional) == optional.given /\ optional.value # 0

(* needle.lower() in hay.lower() for the property types of the model.      *)
type_contains(hay, needle) ==
    \/ needle = hay
    \/ needle = "detached" /\ hay = "semi-detached"

(* PropertySearchCriteria.matches, lines 75-91.                            *)
matches(criteria, listing) ==
    IF truthy(criteria.min_price) /\ truthy(listing.price)
          /\ listing.price.value < criteria.min_price.value
    THEN FALSE
    ELSE IF truthy(criteria.max_price) /\ truthy(listing.price)
               /\ listing.price.value > criteria.max_price.value
    THEN FALSE
    ELSE IF truthy(criteria.min_bedrooms) /\ truthy(listing.bedrooms)
               /\ listing.bedrooms.value < criteria.min_bedrooms.value
    THEN FALSE
    ELSE IF truthy(criteria.max_bedrooms) /\ truthy(listing.bedrooms)
               /\ listing.bedrooms.value > criteria.max_bedrooms.value
    THEN FALSE
    ELSE IF criteria.property_type # ""
               /\ ~type_contains(listing.property_type, criteria.property_type)
    THEN FALSE
    ELSE IF criteria.keywords # {} /\ ~(criteria.keywords \subseteq listing.words)
    THEN FALSE
    ELSE TRUE

(* What a source returns: no listings without an API key or when the       *)
(* request fails (lines 112-114, 140-145 and 236-241), else the listings   *)
(* of the response, marked with the source.                                *)
listings_of(outcome, source) ==
    IF outcome.status # "ok" THEN <<>>
    ELSE [i \in 1..Len(outcome.items) |->
             [outcome.items[i] EXCEPT !.source = source]]

search_zoopla(outcome) == listings_of(outcome, "zoopla")

search_nestoria(outcome) == listings_of(outcome, "nestoria")

(* Line 301.                                                               *)
dedup_key(listing) == <<lower_strip(listing.address), listing.price>>

(* Lines 299-304 from listing i on, with the keys seen so far.             *)
RECURSIVE unique_from(_, _, _, _)
unique_from(listings, i, seen, unique) ==
    IF i > Len(listings) THEN unique
    ELSE IF dedup_key(listings[i]) \notin seen
         THEN unique_from(listings, i + 1, seen \cup {dedup_key(listings[i])},
                          Append(unique, listings[i]))
         ELSE unique_from(listings, i + 1, seen, unique)

(* The slice s[:n] of Python: the first n entries for n >= 0, all but the  *)
(* last -n entries for n < 0.                                              *)
slice_to(s, n) ==
    IF n >= 0 THEN SubSeq(s, 1, Min(n, Len(s)))
    ELSE SubSeq(s, 1, Max(Len(s) + n, 0))

(* Lines 279-306.                                                          *)
search_property_feeds(criteria, zoopla_outcome, nestoria_outcome) ==
    LET zoopla == search_zoopla(zoopla_outcome)
        nestoria == search_nestoria(nestoria_outcome)
        listings == zoopla \o nestoria
        matching == SelectSeq(listings, LAMBDA l : matches(criteria, l))
        unique == unique_from(matching, 1, {}, <<>>)
    IN  [raised |-> "none", listings |-> slice_to(unique, criteria.max_results)]

(***************************************************************************)
(* land_registry.py and option_area_prices (main.py).  A text typed by the *)
(* user is the sequence of its characters in upper case, without the       *)
(* surrounding white space, plus two marks: whether it was typed with      *)
(* lower-case letters and whether with surrounding white space.  The       *)
(* registry is the sequence of its sales since min_date, newest first.     *)
(***************************************************************************)
Text(chars, lower, padded) == [chars |-> chars, lower |-> lower, padded |-> padded]

EmptyText == Text(<<>>, FALSE, FALSE)

(* Truth value of a str, or of None (modelled as the empty text).          *)
non_empty(text) == text.chars # <<>> \/ text.padded

(* text.strip().upper()                                                    *)
strip_upper(text) == text.chars

(* STRSTARTS(?postcode, prefix)                                            *)
starts_with(chars, prefix) ==
    Len(prefix) <= Len(chars) /\ SubSeq(chars, 1, Len(prefix)) = prefix

(* CONTAINS(UCASE(?town), part)                                            *)
contains(chars, part) ==
    \E i \in 1..(Len(chars) + 1) :
        i + Len(part) - 1 <= Len(chars)
           /\ SubSeq(chars, i, i + Len(part) - 1) = part

(* Lines 54-66: the filters of the SPARQL query.                           *)
sparql_filters(postcode, town) ==
    (IF non_empty(postcode)
     THEN IF Len(strip_upper(postcode)) <= 4
          THEN <<[on |-> "postcode", test |-> "starts", value |-> strip_upper(postcode)]>>
          ELSE <<[on |-> "postcode", test |-> "equals", value |-> strip_upper(postcode)]>>
     ELSE <<>>)
    \o (IF non_empty(town)
        THEN <<[on |-> "town", test |-> "contains", value |-> strip_upper(town)]>>
        ELSE <<>>)

(* Lines 147-152: the parameters of the fallback request.                  *)
ppd_filters(postcode, town) ==
    (IF non_empty(postcode)
     THEN <<[on |-> "postcode", test |-> "equals", value |-> strip_upper(postcode)]>>
     ELSE <<>>)
    \o (IF non_empty(town)
        THEN <<[on |-> "town", test |-> "equals", value |-> strip_upper(town)]>>
        ELSE <<>>)

(* Whether the registry selects a sale under one filter.                   *)
passes_filter(sale, f) ==
    LET field == IF f.on = "postcode" THEN sale.postcode ELSE sale.town
    IN  CASE f.test = "starts" -> starts_with(field, f.value)
          [] f.test = "contains" -> contains(field, f.value)
          [] f.test = "equals" -> field = f.value

(* The answer of the registry: its sales that pass every filter, newest    *)
(* first, at most max_results of them.                                     *)
registry_answer(registry, filters, max_results) ==
    LET selected == SelectSeq(registry,
                        LAMBDA sale : \A k \in DOMAIN filters :
                                         passes_filter(sale, filters[k]))
    IN  SubSeq(selected, 1, Min(Len(selected), max_results))

(* search_sold_prices, lines 42-140, with _search_ppd_simple, lines        *)
(* 142-191: the requests sent and the sales returned.                      *)
search_sold_prices(postcode, town, max_results, registry, sparql_ok, ppd_ok) ==
    LET filters == sparql_filters(postcode, town)
    IN  IF filters = <<>>
        THEN [requests |-> <<>>, sales |-> <<>>]
        ELSE IF sparql_ok
        THEN [requests |-> <<[api |-> "sparql", filters |-> filters]>>,
              sales |-> registry_answer(registry, filters, max_results)]
        ELSE [requests |-> <<[api |-> "sparql", filters |-> filters],
                             [api |-> "ppd",
                              filters |-> ppd_filters(postcode, town)]>>,
              sales |-> IF ppd_ok
                        THEN registry_answer(registry,
                                             ppd_filters(postcode, town),
                                             max_results)
                        ELSE <<>>]

(* sorted(prices)                                                          *)
RECURSIVE sorted(_)
sorted(prices) ==
    IF prices = <<>> THEN <<>>
    ELSE LET least == CHOOSE i \in DOMAIN prices :
                          \A j \in DOMAIN prices : prices[i] <= prices[j]
         IN  <<prices[least]>>
                \o sorted(SubSeq(prices, 1, least - 1)
                             \o SubSeq(prices, least + 1, Len(prices)))

RECURSIVE sum(_)
sum(prices) == IF prices = <<>> THEN 0 ELSE Head(prices) + sum(Tail(prices))

(* _group_by_type, lines 217-231.                                          *)
group_by_type(sales) ==
    [ptype \in {sales[i].type_name : i \in DOMAIN sales} |->
        LET prices == [i \in 1..Len(SelectSeq(sales, LAMBDA s : s.type_name = ptype))
                          |-> SelectSeq(sales, LAMBDA s : s.type_name = ptype)[i].price]
        IN  [count |-> Len(prices), avg |-> sum(prices) \div Len(prices),
             min |-> sorted(prices)[1], max |-> sorted(prices)[Len(prices)]]]

(* The statistics of lines 200-214 for a non-empty list of sales.          *)
stats_of(sales) ==
    LET prices == [i \in 1..Len(sales) |-> sales[i].price]
        sorted_prices == sorted(prices)
        n == Len(sorted_prices)
    IN  [count |-> n,
         min |-> sorted_prices[1],
         max |-> sorted_prices[n],
         mean |-> sum(prices) \div n,
         median |-> sorted_prices[(n \div 2) + 1],
         by_type |-> group_by_type(sales)]

(* area_price_stats, lines 194-214: it searches by postcode only.          *)
area_price_stats(postcode_prefix, registry, sparql_ok, ppd_ok) ==
    LET search == search_sold_prices(postcode_prefix, EmptyText, 50, registry,
                                     sparql_ok, ppd_ok)
    IN  IF search.sales = <<>>
        THEN [requests |-> search.requests, count |-> 0]
        ELSE [requests |-> search.requests, count |-> Len(search.sales),
              stats |-> stats_of(search.sales),
              postcode_prefix |-> postcode_prefix]

(* option_area_prices, lines 219-266: what the option shows and the        *)
(* requests it sent.                                                       *)
option_area_prices(postcode, town, registry, sparql_ok, ppd_ok) ==
    IF ~non_empty(postcode) /\ ~non_empty(town)
    THEN [raised |-> "none", shown |-> "Need at least a postcode or town",
          requests |-> <<>>]
    ELSE LET stats == area_price_stats(postcode, registry, sparql_ok, ppd_ok)
         IN  IF stats.count = 0
             THEN [raised |-> "none", shown |-> "No data found",
                   requests |-> stats.requests]
             ELSE [raised |-> "none", shown |-> "Area Price Summary",
                   requests |-> stats.requests,
                   area |-> IF non_empty(postcode) THEN postcode ELSE town,
                   stats |-> stats.stats]

(***************************************************************************)
(* Inputs of the model.                                                    *)
(***************************************************************************)
PctDelta == 1

(* Prices around every band threshold, 0, 300,000 and 2,000,000.           *)
StampDutyPrices ==
    { p \in { a + d : a \in {0, 250000, 300000, 425000, 625000, 925000,
                              1500000, 2000000},
                      d \in (-MaxDelta)..MaxDelta } : p >= 0 }

MortgagePrices == {1, 99, 250000}

(* Deposit percents, in 1/PctScale percent: below, around and above the    *)
(* clamp limits and around the percentages of the comparison table.        *)
DepositPercents ==
    { a * PctScale + d : a \in {5, 10, 15, 20, 25, 40, 100},
                         d \in (-PctDelta)..PctDelta }
        \cup { -10 * PctScale, 0, 150 * PctScale }

TermYears == {1, 25}

RateTypes == DOMAIN LENDER_SPREADS \cup {"no_such_rate_type"}

BaseRateOverrides == {None, Some(-325), Some(0), Some(525)}

(* What get_boe_base_rate() can return: a rate, or None on any failure.    *)
FetchOutcomes == {None, Some(475)}

MaxLtv == 110

(* Loan-to-value ratios in quarter percent, below, between and above the   *)
(* thresholds of the table.                                                *)
LtvPercents == 0..(MaxLtv * PctScale)

(* Inputs of calculate_monthly_repayment: loans in pounds, rates from -3   *)
(* over 0 and the smallest positive float rates up to 8.75 percent, terms  *)
(* in years with the malformed term 0.                                     *)
RepaymentLoans == {0, 1, 99, 1000, 100000, 270000}

RepaymentRates == {Rate(h) : h \in {-300, 0, 1, 50, 575, 875}} \cup {TinyRate}

RepaymentTerms == {0, 1, 2, 10, 25}

(* Inputs of check_affordability: incomes and loans in pounds, rates and    *)
(* buffers in 0.01 percent, multiples in quarters (-4.25, 4.25 and 4.5).   *)
AnnualIncomes == {0, 1, 30000, 33333, 60000}

AffordabilityLoans == {0, 12000, 13500, 270000, 270001}

AffordabilityRates == {-300, 0, 575}

IncomeMultiples == {-17, 17, 18}

StressBuffers == {0, 300}

(* Inputs of total_purchase_cost: prices around the band edges and above   *)
(* the last one, deposit percents in quarter percent (0, 10, 10.25, 150).  *)
PurchasePrices == {99, 250000, 425001, 625001, 1500000, 1500001, 2000000}

PurchaseDepositPercents == {0, 10 * PctScale, 10 * PctScale + 1, 150 * PctScale}

SolicitorFees == {0, 1500}

SurveyCosts == {500}

BrokerFees == {0, 500}

(* Inputs of the all-in-one analysis; deposit percents 0, 10 and 150.       *)
AnalysisPrices == {99, 250000, 2000000}

AnalysisDepositPercents == {0, 10 * PctScale, 150 * PctScale}

AnalysisIncomes == {50000}

AnalysisTerms == {20}

(* What the nine fetches of one analysis can return: the outcome changes   *)
(* at most once while the analysis runs (before fetch k).                  *)
AnalysisFetchSequences ==
    {[i \in 1..(Len(comparison_deposits) + 1) |-> IF i < k THEN f ELSE g] :
        k \in 1..(Len(comparison_deposits) + 1), f \in FetchOutcomes,
        g \in FetchOutcomes}

(* Inputs of search_property_feeds.  The items a portal can return: the    *)
(* same house twice with the address written differently, a flat, and the  *)
(* first house again without a price.                                      *)
FeedItems ==
    { [address |-> Address("1 high st", TRUE, FALSE), price |-> Some(250000),
       bedrooms |-> Some(3), property_type |-> "semi-detached",
       words |-> {"garden"}, source |-> ""],
      [address |-> Address("1 high st", FALSE, TRUE), price |-> Some(250000),
       bedrooms |-> Some(3), property_type |-> "semi-detached",
       words |-> {"garden", "garage"}, source |-> ""],
      [address |-> Address("2 low rd", TRUE, FALSE), price |-> Some(180000),
       bedrooms |-> Some(2), property_type |-> "flat",
       words |-> {}, source |-> ""],
      [address |-> Address("1 high st", TRUE, FALSE), price |-> None,
       bedrooms |-> None, property_type |-> "",
       words |-> {"garden"}, source |-> ""] }

MaxFeedLen == 2

FeedResponses == UNION {[1..n -> FeedItems] : n \in 0..MaxFeedLen}

ZooplaOutcomes ==
    {[status |-> s, items |-> <<>>] : s \in {"no_key", "failed"}}
       \cup {[status |-> "ok", items |-> items] : items \in FeedResponses}

NestoriaOutcomes ==
    {[status |-> "failed", items |-> <<>>]}
       \cup {[status |-> "ok", items |-> items] : items \in FeedResponses}

DefaultCriteria ==
    [min_price |-> None, max_price |-> None, min_bedrooms |-> None,
     max_bedrooms |-> None, property_type |-> "", keywords |-> {},
     max_results |-> 20]

SearchCriteria ==
    { DefaultCriteria,
      [DefaultCriteria EXCEPT !.max_results = 1],
      [DefaultCriteria EXCEPT !.max_results = 0],
      [DefaultCriteria EXCEPT !.max_results = -1],
      [DefaultCriteria EXCEPT !.min_price = Some(200000)],
      [DefaultCriteria EXCEPT !.max_price = Some(300000),
                              !.min_bedrooms = Some(3),
                              !.property_type = "detached",
                              !.keywords = {"garden"},
                              !.max_results = 2] }

ComparisonPrices == {99, 250000}

ComparisonRateTypes == {"tracker", "no_such_rate_type"}

(* What the fetches of one comparison can return, call by call.            *)
FetchSequences == [1..Len(comparison_deposits) -> FetchOutcomes]

(* Sales of the registry, newest first.                                    *)
RegistryPool ==
    <<[postcode |-> <<"B", "S", "1", " ", "4", "D", "J">>,
       town |-> <<"B", "R", "I", "S", "T", "O", "L">>,
       price |-> 300000, type_name |-> "Flat/Maisonette"],
      [postcode |-> <<"B", "S", "1", "0", " ", "5", "X", "X">>,
       town |-> <<"B", "R", "I", "S", "T", "O", "L">>,
       price |-> 250000, type_name |-> "Terraced"],
      [postcode |-> <<"B", "A", "1", " ", "1", "A", "A">>,
       town |-> <<"B", "A", "T", "H">>,
       price |-> 400000, type_name |-> "Terraced"],
      [postcode |-> <<"B", "S", "1", " ", "4", "D", "J">>,
       town |-> <<"B", "R", "I", "S", "T", "O", "L">>,
       price |-> 325001, type_name |-> "Detached"]>>

(* The registries: the pool without some of its sales.                     *)
Registries ==
    {SelectSeq([i \in DOMAIN RegistryPool |-> [sale |-> RegistryPool[i], at |-> i]],
               LAMBDA entry : entry.at \in kept) :
        kept \in SUBSET DOMAIN RegistryPool}

sales_of(registry) == [i \in DOMAIN registry |-> registry[i].sale]

PostcodeInputs ==
    {EmptyText,
     Text(<<"B", "S", "1">>, FALSE, FALSE),
     Text(<<"B", "S", "1">>, TRUE, FALSE),
     Text(<<"B", "S", "1", " ", "4", "D", "J">>, FALSE, FALSE)}

TownInputs ==
    {EmptyText,
     Text(<<"B", "R", "I", "S", "T", "O", "L">>, TRUE, FALSE),
     Text(<<"B", "A", "T", "H">>, FALSE, FALSE)}

NoArgs == [engine |-> "none"]

NoResult == [raised |-> "no call"]

(***************************************************************************)
(* The state machine: the caller (CLI menu or HTTP route) is idle, calls   *)
(* one engine with its inputs, and gets the result or the exception.       *)
(***************************************************************************)
Init ==
    /\ op = "idle"
    /\ args = NoArgs
    /\ result = NoResult
    /\ previous = NoResult
    /\ fetches = <<>>

CallCalculateStampDuty ==
    /\ op = "idle"
    /\ \E price \in StampDutyPrices, first_time_buyer \in BOOLEAN,
          additional_property \in BOOLEAN :
          /\ args' = [engine |-> "calculate_stamp_duty", price |-> price,
                      first_time_buyer |-> first_time_buyer,
                      additional_property |-> additional_property]
          /\ result' = calculate_stamp_duty(price, first_time_buyer,
                                            additional_property)
    /\ op' = "calculate_stamp_duty"
    /\ previous' = NoResult
    /\ fetches' = <<>>

CallCalculateMortgage ==
    /\ op = "idle"
    /\ \E property_price \in MortgagePrices, deposit_percent \in DepositPercents,
          term_years \in TermYears, rate_type \in RateTypes,
          base_rate_override \in BaseRateOverrides :
          \E fetched \in IF base_rate_override.given THEN {None} ELSE FetchOutcomes :
             /\ args' = [engine |-> "calculate_mortgage",
                         property_price |-> property_price,
                         deposit_percent |-> deposit_percent,
                         term_years |-> term_years,
                         rate_type |-> rate_type,
                         base_rate_override |-> base_rate_override]
             /\ result' = calculate_mortgage(property_price, deposit_percent,
                                             term_years, rate_type,
                                             base_rate_override, fetched)
             /\ fetches' = IF base_rate_override.given THEN <<>> ELSE <<fetched>>
    /\ op' = "calculate_mortgage"
    /\ previous' = NoResult

CallGetLtvPremium ==
    /\ op = "idle"
    /\ \E ltv_percent \in LtvPercents :
          /\ args' = [engine |-> "get_ltv_premium", ltv_percent |-> ltv_percent]
          /\ result' = [raised |-> "none", premium |-> get_ltv_premium(ltv_percent)]
    /\ fetches' = <<>>
    /\ op' = "get_ltv_premium"
    /\ previous' = NoResult

CallCalculateMonthlyRepayment ==
    /\ op = "idle"
    /\ \E loan \in RepaymentLoans, annual_rate_pct \in RepaymentRates,
          term_years \in RepaymentTerms :
          /\ args' = [engine |-> "calculate_monthly_repayment",
                      loan |-> loan,
                      annual_rate_pct |-> annual_rate_pct,
                      term_years |-> term_years]
          /\ result' = calculate_monthly_repayment(loan * MoneyScale,
                                                   annual_rate_pct, term_years)
    /\ fetches' = <<>>
    /\ op' = "calculate_monthly_repayment"
    /\ previous' = NoResult

CallCheckAffordability ==
    /\ op = "idle"
    /\ \E annual_income \in AnnualIncomes, loan_amount \in AffordabilityLoans,
          interest_rate \in AffordabilityRates, term_years \in TermYears,
          income_multiple \in IncomeMultiples, stress_buffer \in StressBuffers :
          /\ args' = [engine |-> "check_affordability",
                      annual_income |-> annual_income,
                      loan_amount |-> loan_amount,
                      interest_rate |-> interest_rate,
                      term_years |-> term_years,
                      income_multiple |-> income_multiple,
                      stress_buffer |-> stress_buffer]
          /\ result' = check_affordability(annual_income, loan_amount,
                                           interest_rate, term_years,
                                           income_multiple, stress_buffer)
    /\ fetches' = <<>>
    /\ op' = "check_affordability"
    /\ previous' = NoResult

CallTotalPurchaseCost ==
    /\ op = "idle"
    /\ \E property_price \in PurchasePrices,
          deposit_percent \in PurchaseDepositPercents,
          first_time_buyer \in BOOLEAN, solicitor_fees \in SolicitorFees,
          survey_cost \in SurveyCosts, broker_fee \in BrokerFees :
          /\ args' = [engine |-> "total_purchase_cost",
                      property_price |-> property_price,
                      deposit_percent |-> deposit_percent,
                      first_time_buyer |-> first_time_buyer,
                      solicitor_fees |-> solicitor_fees,
                      survey_cost |-> survey_cost,
                      broker_fee |-> broker_fee]
          /\ result' = total_purchase_cost(property_price, deposit_percent,
                                           first_time_buyer, solicitor_fees,
                                           survey_cost, broker_fee)
    /\ fetches' = <<>>
    /\ op' = "total_purchase_cost"
    /\ previous' = NoResult

CallDepositComparison ==
    /\ op = "idle"
    /\ \E property_price \in ComparisonPrices, term_years \in TermYears,
          rate_type \in ComparisonRateTypes, fetched \in FetchSequences :
          /\ args' = [engine |-> "deposit_comparison",
                      property_price |-> property_price,
                      term_years |-> term_years,
                      rate_type |-> rate_type]
          /\ result' = deposit_comparison(property_price, term_years, rate_type,
                                          fetched)
          /\ fetches' = fetched
    /\ op' = "deposit_comparison"
    /\ previous' = NoResult

CallAnalyseProperty ==
    /\ op = "idle"
    /\ \E price \in AnalysisPrices, deposit_pct \in AnalysisDepositPercents,
          income \in AnalysisIncomes, ftb \in BOOLEAN, term \in AnalysisTerms,
          fetched \in AnalysisFetchSequences :
          LET analysis == analyse_property(price, deposit_pct, income, ftb, term,
                                           fetched)
          IN  /\ args' = [engine |-> "analyse_property", price |-> price,
                          deposit_pct |-> deposit_pct, income |-> income,
                          ftb |-> ftb, term |-> term]
              /\ result' = analysis
              /\ fetches' = analysis_fetches(analysis, fetched)
    /\ op' = "analyse_property"
    /\ previous' = NoResult

CallSearchPropertyFeeds ==
    /\ op = "idle"
    /\ \E criteria \in SearchCriteria, zoopla_outcome \in ZooplaOutcomes,
          nestoria_outcome \in NestoriaOutcomes :
          /\ args' = [engine |-> "search_property_feeds",
                      criteria |-> criteria,
                      zoopla_outcome |-> zoopla_outcome,
                      nestoria_outcome |-> nestoria_outcome]
          /\ result' = search_property_feeds(criteria, zoopla_outcome,
                                             nestoria_outcome)
    /\ fetches' = <<>>
    /\ op' = "search_property_feeds"
    /\ previous' = NoResult

CallOptionAreaPrices ==
    /\ op = "idle"
    /\ \E postcode \in PostcodeInputs, town \in TownInputs,
          registry \in Registries, sparql_ok \in BOOLEAN, ppd_ok \in BOOLEAN :
          /\ args' = [engine |-> "option_area_prices",
                      postcode |-> postcode, town |-> town,
                      registry |-> sales_of(registry),
                      sparql_ok |-> sparql_ok, ppd_ok |-> ppd_ok]
          /\ result' = option_area_prices(postcode, town, sales_of(registry),
                                          sparql_ok, ppd_ok)
    /\ fetches' = <<>>
    /\ op' = "option_area_prices"
    /\ previous' = NoResult

(* The engines of the calculation core.                                    *)
CoreEngines ==
    {"calculate_mortgage", "deposit_comparison", "calculate_stamp_duty",
     "check_affordability", "total_purchase_cost"}

(* The engine of a call made again with the arguments a of that call, when *)
(* every base-rate fetch of the second call returns fetched.               *)
call_again(engine, a, fetched) ==
    CASE engine = "calculate_stamp_duty" ->
             calculate_stamp_duty(a.price, a.first_time_buyer, a.additional_property)
      [] engine = "calculate_mortgage" ->
             calculate_mortgage(a.property_price, a.deposit_percent, a.term_years,
                                a.rate_type, a.base_rate_override, fetched)
      [] engine = "deposit_comparison" ->
             deposit_comparison(a.property_price, a.term_years, a.rate_type,
                                [i \in 1..Len(comparison_deposits) |-> fetched])
      [] engine = "check_affordability" ->
             check_affordability(a.annual_income, a.loan_amount, a.interest_rate,
                                 a.term_years, a.income_multiple, a.stress_buffer)
      [] engine = "total_purchase_cost" ->
             total_purchase_cost(a.property_price, a.deposit_percent,
                                 a.first_time_buyer, a.solicitor_fees,
                                 a.survey_cost, a.broker_fee)

(* The fetches that second call performs.                                  *)
fetches_again(engine, a, fetched) ==
    CASE engine = "calculate_mortgage" ->
             IF a.base_rate_override.given THEN <<>> ELSE <<fetched>>
      [] engine = "deposit_comparison" ->
             [i \in 1..Len(comparison_deposits) |-> fetched]
      [] OTHER -> <<>>

(* The caller invokes the same engine once more with identical arguments;  *)
(* the result of the first call is kept for comparison.                    *)
RepeatCall ==
    /\ op \in CoreEngines
    /\ previous = NoResult
    /\ \E fetched \in FetchOutcomes :
          /\ result' = call_again(op, args, fetched)
          /\ fetches' = fetches_again(op, args, fetched)
    /\ previous' = result
    /\ UNCHANGED <<op, args>>

(* The caller takes the result (or reports the exception) and is idle again. *)
Return ==
    /\ op # "idle"
    /\ op' = "idle"
    /\ previous' = NoResult
    /\ args' = NoArgs
    /\ result' = NoResult
    /\ fetches' = <<>>

Next ==
    \/ CallCalculateStampDuty
    \/ CallCalculateMortgage
    \/ CallDepositComparison
    \/ CallGetLtvPremium
    \/ CallCalculateMonthlyRepayment
    \/ CallCheckAffordability
    \/ CallTotalPurchaseCost
    \/ RepeatCall
    \/ CallAnalyseProperty
    \/ CallSearchPropertyFeeds
    \/ CallOptionAreaPrices
    \/ Return

Spec == Init /\ [][Next]_vars

(* The stamp-duty engine alone, and the mortgage engine alone.             *)
NextStampDuty ==
    \/ CallCalculateStampDuty
    \/ Return

SpecStampDuty == Init /\ [][NextStampDuty]_vars

NextMortgage ==
    \/ CallCalculateMortgage
    \/ Return

SpecMortgage == Init /\ [][NextMortgage]_vars

NextLtvPremium ==
    \/ CallGetLtvPremium
    \/ CallCalculateMortgage
    \/ Return

SpecLtvPremium == Init /\ [][NextLtvPremium]_vars

NextRepayment ==
    \/ CallCalculateMonthlyRepayment
    \/ Return

SpecRepayment == Init /\ [][NextRepayment]_vars

NextAffordability ==
    \/ CallCheckAffordability
    \/ Return

SpecAffordability == Init /\ [][NextAffordability]_vars

NextPurchaseCost ==
    \/ CallTotalPurchaseCost
    \/ Return

SpecPurchaseCost == Init /\ [][NextPurchaseCost]_vars

NextRepeat ==
    \/ CallCalculateStampDuty
    \/ CallCalculateMortgage
    \/ CallDepositComparison
    \/ CallCheckAffordability
    \/ CallTotalPurchaseCost
    \/ RepeatCall
    \/ Return

SpecRepeat == Init /\ [][NextRepeat]_vars

NextAnalysis ==
    \/ CallAnalyseProperty
    \/ Return

SpecAnalysis == Init /\ [][NextAnalysis]_vars

NextZeroInputs ==
    \/ CallCalculateMonthlyRepayment
    \/ CallCheckAffordability
    \/ Return

SpecZeroInputs == Init /\ [][NextZeroInputs]_vars

NextFeeds ==
    \/ CallSearchPropertyFeeds
    \/ Return

SpecFeeds == Init /\ [][NextFeeds]_vars

NextAreaPrices ==
    \/ CallOptionAreaPrices
    \/ Return

SpecAreaPrices == Init /\ [][NextAreaPrices]_vars

NextComparison ==
    \/ CallDepositComparison
    \/ Return

SpecComparison == Init /\ [][NextComparison]_vars

(***************************************************************************)
(* Properties of calculate_stamp_duty.                                     *)
(***************************************************************************)
StampDutyCalled == op = "calculate_stamp_duty"

RECURSIVE SumAmounts(_)
SumAmounts(breakdown) ==
    IF breakdown = <<>> THEN 0
    ELSE Head(breakdown)[2] + SumAmounts(Tail(breakdown))

(* The part of the price inside the band from lo to hi.                    *)
Portion(price, lo, hi) == Max(0, Min(price, hi) - lo)

(* The progressive standard schedule, band by band, each tax floored.      *)
StandardSchedule(price) ==
    (Portion(price, 0, 250000) * 0) \div 100
    + (Portion(price, 250000, 925000) * 5) \div 100
    + (Portion(price, 925000, 1500000) * 10) \div 100
    + (Portion(price, 1500000, price) * 12) \div 100

(* C1: for every price >= 0 and every flag combination the call returns a  *)
(* result whose breakdown amounts sum exactly to its stamp_duty.           *)
C1_BreakdownSumsToTotal ==
    StampDutyCalled =>
        /\ Returned(result)
        /\ SumAmounts(result.breakdown) = result.stamp_duty

(* C2 as stated: a first-time buyer pays 0 at 425,000 and strictly more    *)
(* than 0 at 425,001.                                                      *)
C2_ReliefBoundaryStrict ==
    (StampDutyCalled /\ args.first_time_buyer /\ ~args.additional_property) =>
        /\ args.price = 425000 => (Returned(result) /\ result.stamp_duty = 0)
        /\ args.price = 425001 => (Returned(result) /\ result.stamp_duty > 0)

(* C2 amended: a first-time buyer pays 0 up to 425,019 (the 5% of the      *)
(* excess over 425,000 is floored to whole pounds) and strictly more than  *)
(* 0 from 425,020 up to 625,000.                                           *)
C2_ReliefBoundaryFloored ==
    (StampDutyCalled /\ args.first_time_buyer /\ ~args.additional_property
       /\ args.price <= 625000) =>
        /\ Returned(result)
        /\ args.price <= 425019 => result.stamp_duty = 0
        /\ args.price >= 425020 => result.stamp_duty > 0

C2_Witness ==
    /\ StampDutyCalled /\ args.first_time_buyer /\ ~args.additional_property
    /\ args.price = 425020
    /\ Returned(result) /\ result.stamp_duty = 1

(* C3: a buyer who is neither first-time nor additional-property pays the  *)
(* progressive standard schedule, for every price >= 0.                    *)
C3_StandardSchedule ==
    (StampDutyCalled /\ ~args.first_time_buyer /\ ~args.additional_property) =>
        /\ Returned(result)
        /\ result.stamp_duty = StandardSchedule(args.price)
        /\ args.price <= 250000 => result.stamp_duty = 0
        /\ args.price = 300000 => result.stamp_duty = 2500

(* C4: for fixed flags the stamp duty is monotone in the price: every      *)
(* lower price returns a stamp duty that is not larger.                    *)
C4_MonotoneInPrice ==
    StampDutyCalled =>
        /\ Returned(result)
        /\ \A price1 \in StampDutyPrices :
              price1 < args.price =>
                 LET lower == calculate_stamp_duty(price1, args.first_time_buyer,
                                                   args.additional_property)
                 IN  Returned(lower) /\ lower.stamp_duty <= result.stamp_duty

(* C5: with additional_property the stamp duty is the stamp duty without   *)
(* it plus floor(5% of the full price), for every price and either value   *)
(* of first_time_buyer; 15,000 more at 300,000.                            *)
C5_SurchargeAdditive ==
    (StampDutyCalled /\ args.additional_property) =>
        LET plain == calculate_stamp_duty(args.price, args.first_time_buyer, FALSE)
        IN  /\ Returned(result)
            /\ Returned(plain)
            /\ result.stamp_duty = plain.stamp_duty + (args.price * 5) \div 100
            /\ args.price = 300000 => result.stamp_duty = plain.stamp_duty + 15000

(* C6: with first_time_buyer, every price above 625,000 returns the stamp  *)
(* duty and breakdown of the standard table, and every price up to 625,000 *)
(* returns a breakdown with no band above 625,000 and only 0% and 5%.      *)
C6_FtbTableOnlyUpTo625k ==
    (StampDutyCalled /\ args.first_time_buyer) =>
        /\ Returned(result)
        /\ args.price > 625000 =>
              LET standard == calculate_stamp_duty(args.price, FALSE,
                                                   args.additional_property)
              IN  /\ Returned(standard)
                  /\ result.stamp_duty = standard.stamp_duty
                  /\ result.breakdown = standard.breakdown
        /\ args.price <= 625000 =>
              \A k \in DOMAIN result.breakdown :
                 /\ result.breakdown[k][1].hi <= 625000
                 /\ result.breakdown[k][1].rate \in {0, 5}

(* C7: every call returns stamp_duty >= 0 with every breakdown amount >= 0; *)
(* at price 0 the stamp duty and the effective rate are 0 and no band line *)
(* is produced.                                                            *)
C7_NonNegative ==
    StampDutyCalled =>
        /\ Returned(result)
        /\ result.stamp_duty >= 0
        /\ \A k \in DOMAIN result.breakdown : result.breakdown[k][2] >= 0
        /\ args.price = 0 =>
              /\ result.stamp_duty = 0
              /\ result.effective_rate.num = 0
              /\ \A k \in DOMAIN result.breakdown :
                    result.breakdown[k][1].desc # "band"

(* The band lines the claim expects: one for each band of the table whose  *)
(* lower threshold is strictly below the price, in band order.             *)
RECURSIVE ExpectedBandLabels(_, _, _, _)
ExpectedBandLabels(bands, i, lo, price) ==
    IF i > Len(bands) \/ lo >= price THEN <<>>
    ELSE <<[desc |-> "band", lo |-> lo, hi |-> bands[i].threshold,
            rate |-> bands[i].rate]>>
         \o ExpectedBandLabels(bands, i + 1, bands[i].threshold, price)

ExpectedLabels(price, first_time_buyer, additional_property) ==
    ExpectedBandLabels(IF first_time_buyer /\ price <= 625000
                       THEN SDLT_FTB_BANDS ELSE SDLT_BANDS, 1, 0, price)
    \o (IF additional_property
        THEN <<[desc |-> "surcharge", lo |-> 0, hi |-> 0, rate |-> 5]>>
        ELSE <<>>)

(* C8: the breakdown has exactly one line for each band of the selected    *)
(* table whose lower threshold is strictly below the price, in ascending   *)
(* order, followed by one surcharge line iff additional_property.          *)
C8_BreakdownLines ==
    StampDutyCalled =>
        /\ Returned(result)
        /\ [k \in DOMAIN result.breakdown |-> result.breakdown[k][1]]
              = ExpectedLabels(args.price, args.first_time_buyer,
                               args.additional_property)

(***************************************************************************)
(* Properties of calculate_mortgage.                                       *)
(***************************************************************************)
MortgageCalled == op = "calculate_mortgage"

Clamped(deposit_percent) ==
    IF deposit_percent < 5 * PctScale THEN 5 * PctScale
    ELSE IF deposit_percent > 100 * PctScale THEN 100 * PctScale
    ELSE deposit_percent

(* C9: for every price > 0 and every deposit percent the quote has         *)
(* deposit_amount = floor(price * clamped percent / 100) and loan_amount = *)
(* price - deposit_amount, so the two sum to the price exactly.            *)
C9_LoanPlusDepositIsPrice ==
    (MortgageCalled /\ args.property_price > 0 /\ args.term_years > 0) =>
        /\ Returned(result)
        /\ result.deposit_amount
              = (args.property_price * Clamped(args.deposit_percent))
                   \div (100 * PctScale)
        /\ result.loan_amount = args.property_price - result.deposit_amount
        /\ result.loan_amount + result.deposit_amount = result.property_price

(* A quote whose deposit is truncated: price * percent / 100 is not whole. *)
C9_Witness ==
    /\ MortgageCalled /\ Returned(result)
    /\ (args.property_price * Clamped(args.deposit_percent)) % (100 * PctScale) # 0
    /\ result.deposit_amount > 0
    /\ result.loan_amount > 0

(* C10: the returned deposit_percent is max(5, min(100, input)), and the   *)
(* deposit, the loan and the LTV premium are those of the clamped value.   *)
C10_DepositPercentClamped ==
    (MortgageCalled /\ args.term_years > 0) =>
        /\ Returned(result)
        /\ result.deposit_percent = Clamped(args.deposit_percent)
        /\ result.deposit_percent >= 5 * PctScale
        /\ result.deposit_percent <= 100 * PctScale
        /\ (args.deposit_percent >= 5 * PctScale
              /\ args.deposit_percent <= 100 * PctScale)
              => result.deposit_percent = args.deposit_percent
        /\ result.deposit_amount * 100 * PctScale
              <= args.property_price * result.deposit_percent
        /\ args.property_price * result.deposit_percent
              < (result.deposit_amount + 1) * 100 * PctScale
        /\ result.loan_amount = args.property_price - result.deposit_amount
        /\ result.ltv_premium
              = get_ltv_premium(100 * PctScale - result.deposit_percent)

(* A quote whose input percent lay outside [5, 100] and was clamped.       *)
C10_Witness ==
    /\ MortgageCalled /\ Returned(result)
    /\ args.deposit_percent > 100 * PctScale
    /\ result.deposit_percent = 100 * PctScale
    /\ result.loan_amount = 0

(***************************************************************************)
(* Properties of deposit_comparison.                                       *)
(***************************************************************************)
ComparisonCalled == op = "deposit_comparison"

(* C11: deposit_comparison returns exactly 8 quotes, the i-th with the     *)
(* i-th of 5, 10, 15, 20, 25, 30, 40, 50 as its deposit_percent (strictly  *)
(* increasing along the sequence) and with the price and term of the call. *)
C11_EightQuotesInFixedOrder ==
    (ComparisonCalled /\ args.term_years > 0) =>
        /\ Returned(result)
        /\ Len(result.quotes) = 8
        /\ \A i \in 1..8 :
              /\ i \in DOMAIN result.quotes
              /\ result.quotes[i].deposit_percent
                    = <<5, 10, 15, 20, 25, 30, 40, 50>>[i] * PctScale
              /\ result.quotes[i].property_price = args.property_price
              /\ result.quotes[i].term_years = args.term_years
        /\ \A i \in 1..7 :
              result.quotes[i].deposit_percent < result.quotes[i + 1].deposit_percent

(* A comparison that returned, with its last quote at 50 percent.          *)
C11_Witness ==
    /\ ComparisonCalled /\ Returned(result)
    /\ Len(result.quotes) = 8
    /\ result.quotes[8].deposit_percent = 50 * PctScale
    /\ result.quotes[8].deposit_amount * 2 = args.property_price

(***************************************************************************)
(* Properties of the LTV premium.                                          *)
(***************************************************************************)
LtvPremiumCalled == op = "get_ltv_premium"

(* The tiers as the specification lists them, in 0.01 percent.             *)
TierPremium(ltv_percent) ==
    IF ltv_percent <= 60 * PctScale THEN 0
    ELSE IF ltv_percent <= 75 * PctScale THEN 10
    ELSE IF ltv_percent <= 80 * PctScale THEN 20
    ELSE IF ltv_percent <= 85 * PctScale THEN 40
    ELSE IF ltv_percent <= 90 * PctScale THEN 65
    ELSE 100

(* C12: get_ltv_premium(ltv) is 0.0 up to 60, 0.10 up to 75, 0.20 up to    *)
(* 80, 0.40 up to 85, 0.65 up to 90 and 1.00 above 90 (also above 95), and *)
(* calculate_mortgage applies it to ltv = 100 - clamped deposit percent.   *)
C12_LtvPremiumTiers ==
    /\ LtvPremiumCalled =>
          /\ Returned(result)
          /\ result.premium = TierPremium(args.ltv_percent)
    /\ (MortgageCalled /\ args.term_years > 0) =>
          /\ Returned(result)
          /\ result.ltv_premium
                = TierPremium(100 * PctScale - Clamped(args.deposit_percent))

(* A lookup above the last threshold of the table.                         *)
C12_Witness ==
    /\ LtvPremiumCalled
    /\ args.ltv_percent > 95 * PctScale
    /\ result.premium = 100

(***************************************************************************)
(* Derived fields of a quote.                                              *)
(***************************************************************************)
(* C13: every returned quote has interest_rate = base_rate + lender_spread *)
(* + ltv_premium, total_repayment = monthly_repayment * term_years * 12,   *)
(* total_interest = total_repayment - loan_amount, and monthly_repayment   *)
(* is the repayment of loan_amount at interest_rate over term_years.       *)
C13_DerivedFields ==
    (MortgageCalled /\ Returned(result)) =>
        /\ result.interest_rate
              = result.base_rate + result.lender_spread + result.ltv_premium
        /\ result.total_repayment
              = float_times(result.monthly_repayment, result.term_years * 12)
        /\ result.total_interest.whole
              = result.total_repayment.whole - result.loan_amount * MoneyScale
        /\ result.total_interest.num = result.total_repayment.num
        /\ result.total_interest.den = result.total_repayment.den
        /\ LET monthly == calculate_monthly_repayment(
                              result.loan_amount * MoneyScale,
                              Rate(result.interest_rate), result.term_years)
           IN  Returned(monthly) /\ result.monthly_repayment = monthly.value

(* A quote with a loan, a positive spread and premium, and interest paid.  *)
C13_Witness ==
    /\ MortgageCalled /\ Returned(result)
    /\ result.loan_amount > 0
    /\ result.lender_spread > 0 /\ result.ltv_premium > 0
    /\ result.interest_rate > 0
    /\ result.term_years > 1
    /\ result.total_interest.whole > 0

(***************************************************************************)
(* Unknown rate-type labels.                                               *)
(***************************************************************************)
(* What the one fetch of the call returned (None when an override was      *)
(* given and nothing was fetched).                                         *)
FetchedByCall == IF fetches = <<>> THEN None ELSE fetches[1]

(* The quote of the same call with rate_type "average_fixed_2yr".          *)
AverageFixed2yrQuote ==
    calculate_mortgage(args.property_price, args.deposit_percent,
                       args.term_years, "average_fixed_2yr",
                       args.base_rate_override, FetchedByCall)

(* C14: a label that is not a key of the spread table raises nothing and   *)
(* gives the numeric fields of the same call with "average_fixed_2yr"      *)
(* (spread 1.25); a known label gives its own table spread.                *)
C14_UnknownRateTypeFallsBack ==
    (MortgageCalled /\ args.term_years > 0) =>
        /\ Returned(result)
        /\ IF args.rate_type \in DOMAIN LENDER_SPREADS
           THEN result.lender_spread = LENDER_SPREADS[args.rate_type]
           ELSE /\ result.lender_spread = 125
                /\ [result EXCEPT !.rate_type = "average_fixed_2yr"]
                      = AverageFixed2yrQuote

(* A returned quote for an unknown label.                                  *)
C14_Witness ==
    /\ MortgageCalled /\ Returned(result)
    /\ args.rate_type \notin DOMAIN LENDER_SPREADS
    /\ result.rate_type = args.rate_type
    /\ result.lender_spread = 125
    /\ result.loan_amount > 0

(***************************************************************************)
(* Properties of calculate_monthly_repayment.                              *)
(***************************************************************************)
RepaymentCalled == op = "calculate_monthly_repayment"

(* C15: for every loan >= 0 and term > 0 the call divides by nothing that  *)
(* is zero; a rate of exactly 0 gives loan / (term * 12), and a loan of 0  *)
(* gives a monthly repayment of 0 for every rate >= 0.                     *)
C15_DegenerateCases ==
    (RepaymentCalled /\ args.loan >= 0 /\ args.term_years > 0
        /\ args.annual_rate_pct.hundredths >= 0) =>
        /\ Returned(result)
        /\ args.annual_rate_pct = Rate(0) =>
              /\ result.value.whole
                    = (args.loan * MoneyScale) \div (args.term_years * 12)
              /\ result.value.num
                    = (args.loan * MoneyScale) % (args.term_years * 12)
              /\ result.value.den = args.term_years * 12
        /\ args.loan = 0 =>
              /\ result.value.whole = 0
              /\ result.value.num = 0

(***************************************************************************)
(* Signs of the amounts of a quote.                                        *)
(***************************************************************************)
(* C16: for every price > 0, deposit percent, term > 0, rate type and      *)
(* supplied base rate, the quote has deposit_amount, loan_amount,          *)
(* monthly_repayment, total_repayment and total_interest all >= 0.         *)
C16_AmountsNonNegative ==
    (MortgageCalled /\ args.property_price > 0 /\ args.term_years > 0) =>
        /\ Returned(result)
        /\ result.deposit_amount >= 0
        /\ result.loan_amount >= 0
        /\ float_non_negative(result.monthly_repayment)
        /\ float_non_negative(result.total_repayment)
        /\ float_non_negative(result.total_interest)

(***************************************************************************)
(* Properties of check_affordability.                                      *)
(***************************************************************************)
AffordabilityCalled == op = "check_affordability"

AffordabilityFields ==
    {"raised", "annual_income", "max_borrowing", "income_multiple",
     "monthly_income", "monthly_repayment", "repayment_to_income",
     "stress_test_rate", "stress_test_monthly", "stress_test_ratio",
     "passes_stress_test", "passes_affordability"}

(* C17: passes_affordability is true iff loan_amount <= max_borrowing and  *)
(* repayment_to_income < 40; passes_stress_test is true iff                *)
(* stress_test_ratio < 45; both comparisons are strict, and the result     *)
(* holds the two flags apart with no combined verdict.                     *)
C17_PassFlags ==
    (AffordabilityCalled /\ args.annual_income > 0 /\ args.term_years > 0) =>
        /\ Returned(result)
        /\ result.passes_affordability
              <=> /\ args.loan_amount <= result.max_borrowing
                  /\ result.repayment_to_income.whole < 40
        /\ result.passes_stress_test <=> result.stress_test_ratio.whole < 45
        /\ DOMAIN result = AffordabilityFields

(* A loan under the cap whose ratio is exactly 40: it fails affordability  *)
(* and still passes the stress test.                                       *)
C17_Witness ==
    /\ AffordabilityCalled /\ Returned(result)
    /\ args.loan_amount <= result.max_borrowing
    /\ result.repayment_to_income.whole = 40
    /\ result.repayment_to_income.num.whole = 0
    /\ result.repayment_to_income.num.num = 0
    /\ ~result.passes_affordability
    /\ result.passes_stress_test

(* The income cap as the specification states it: the product itself.      *)
(* C18 (as stated): for every positive income and every multiple,          *)
(* max_borrowing equals annual_income * income_multiple, also where that   *)
(* product is not a whole number.                                          *)
C18_MaxBorrowingIsProduct ==
    (AffordabilityCalled /\ args.annual_income > 0 /\ args.term_years > 0) =>
        /\ Returned(result)
        /\ result.max_borrowing * MultipleScale
              = args.annual_income * args.income_multiple

(* C18 (amended): max_borrowing is annual_income * income_multiple cut to  *)
(* whole pounds toward zero: the product itself where it is whole, and     *)
(* otherwise the whole number next to it on the side of zero.              *)
C18_MaxBorrowingTruncated ==
    (AffordabilityCalled /\ args.annual_income > 0 /\ args.term_years > 0) =>
        LET product == args.annual_income * args.income_multiple
            cap == result.max_borrowing * MultipleScale
        IN  /\ Returned(result)
            /\ product % MultipleScale = 0 => cap = product
            /\ (product % MultipleScale # 0 /\ product > 0) =>
                  cap < product /\ product < cap + MultipleScale
            /\ (product % MultipleScale # 0 /\ product < 0) =>
                  product < cap /\ cap - MultipleScale < product

(* 33,333 at 4.5: the product 149,998.5 is returned as 149,998.            *)
C18_Witness ==
    /\ AffordabilityCalled /\ Returned(result)
    /\ args.annual_income = 33333 /\ args.income_multiple = 18
    /\ result.max_borrowing = 149998

(* The scenario of the specification: income 60,000, loan 270,000, rate    *)
(* 5.75, term 25, multiple 4.5, buffer 3.0.                                *)
CapScenario ==
    /\ args.annual_income = 60000 /\ args.loan_amount = 270000
    /\ args.interest_rate = 575 /\ args.term_years = 25
    /\ args.income_multiple = 18 /\ args.stress_buffer = 300

(* C19: stress_test_rate = interest_rate + stress_buffer, and the stressed *)
(* repayment is the same formula on the same loan and term at that rate;   *)
(* in the scenario max_borrowing = 270,000 = the loan, monthly income is   *)
(* 5,000, the stress rate 8.75, passes_affordability holds iff the monthly *)
(* repayment is under 2,000 and passes_stress_test iff the stressed        *)
(* repayment is under 2,250.                                               *)
C19_StressTest ==
    (AffordabilityCalled /\ args.annual_income > 0 /\ args.term_years > 0) =>
        /\ Returned(result)
        /\ result.stress_test_rate = args.interest_rate + args.stress_buffer
        /\ LET stressed == calculate_monthly_repayment(
                               args.loan_amount * MoneyScale,
                               Rate(args.interest_rate + args.stress_buffer),
                               args.term_years)
           IN  Returned(stressed) /\ result.stress_test_monthly = stressed.value
        /\ CapScenario =>
              /\ result.max_borrowing = 270000
              /\ args.loan_amount <= result.max_borrowing
              /\ result.monthly_income = [whole |-> 5000, num |-> 0, den |-> 12]
              /\ result.stress_test_rate = 875
              /\ result.passes_affordability
                    <=> result.monthly_repayment.whole < 2000 * MoneyScale
              /\ result.passes_stress_test
                    <=> result.stress_test_monthly.whole < 2250 * MoneyScale

(* The scenario: repayments of 1,698.58 and 2,219.78 pass both tests.      *)
C19_Witness ==
    /\ AffordabilityCalled /\ Returned(result) /\ CapScenario
    /\ result.monthly_repayment.whole = 169858
    /\ result.stress_test_monthly.whole = 221978
    /\ result.passes_affordability /\ result.passes_stress_test

(***************************************************************************)
(* Properties of total_purchase_cost.                                      *)
(***************************************************************************)
PurchaseCostCalled == op = "total_purchase_cost"

(* The amount a formatted entry shows.                                     *)
RECURSIVE GroupsValue(_)
GroupsValue(groups) ==
    IF groups = <<>> THEN 0
    ELSE GroupsValue(SubSeq(groups, 1, Len(groups) - 1)) * 1000
            + groups[Len(groups)]

ShownAmount(entry) ==
    IF entry[2].negative THEN 0 - GroupsValue(entry[2].groups)
    ELSE GroupsValue(entry[2].groups)

(* C20: total_upfront = floor(price * deposit_percent / 100) + the stamp   *)
(* duty of (price, first_time_buyer) without the additional-property       *)
(* surcharge + solicitor_fees + survey_cost + broker_fee, and the          *)
(* breakdown lists Deposit, Stamp Duty, Solicitor, Survey, Broker Fee,     *)
(* TOTAL in that order, TOTAL showing the sum of the five amounts before.  *)
C20_TotalUpfront ==
    PurchaseCostCalled =>
        /\ Returned(result)
        /\ result.total_upfront
              = (args.property_price * args.deposit_percent) \div (100 * PctScale)
                + calculate_stamp_duty(args.property_price,
                                       args.first_time_buyer, FALSE).stamp_duty
                + args.solicitor_fees + args.survey_cost + args.broker_fee
        /\ [i \in 1..Len(result.breakdown) |-> result.breakdown[i][1]]
              = <<"Deposit", "Stamp Duty", "Solicitor", "Survey", "Broker Fee",
                  "TOTAL">>
        /\ ShownAmount(result.breakdown[6])
              = ShownAmount(result.breakdown[1]) + ShownAmount(result.breakdown[2])
                + ShownAmount(result.breakdown[3]) + ShownAmount(result.breakdown[4])
                + ShownAmount(result.breakdown[5])

(***************************************************************************)
(* Network calls of the calculation core.                                  *)
(***************************************************************************)
(* C21: no execution of an engine of the core performs the base-rate       *)
(* fetch, whether or not an override was supplied.                         *)
C21_NoFetchInsideCore == (op \in CoreEngines) => fetches = <<>>

(***************************************************************************)
(* Determinism of the engines.                                             *)
(***************************************************************************)
CalledAgain == op \in CoreEngines /\ previous # NoResult

(* C22: a second call of an engine with identical arguments returns what   *)
(* the first call returned, whatever the base-rate fetches returned.       *)
C22_SameArgumentsSameResult == CalledAgain => result = previous

(***************************************************************************)
(* The base rate of a quote.                                               *)
(***************************************************************************)
(* C23: the base_rate of the quote is the supplied override whenever one   *)
(* is given (0 included), and the fallback 4.50 whenever none is given.    *)
C23_OverrideElseFallback ==
    (MortgageCalled /\ args.term_years > 0) =>
        /\ Returned(result)
        /\ result.base_rate
              = IF args.base_rate_override.given
                THEN args.base_rate_override.value
                ELSE 450

(***************************************************************************)
(* The base rate across the quotes of one comparison.                      *)
(***************************************************************************)
(* C24: the eight quotes of one deposit_comparison call carry the same     *)
(* base_rate, so their interest rates differ only by the LTV premium, for  *)
(* every sequence of outcomes of the fetches made during the call.         *)
C24_OneBaseRatePerComparison ==
    (ComparisonCalled /\ Returned(result)) =>
        \A i, j \in DOMAIN result.quotes :
            /\ result.quotes[i].base_rate = result.quotes[j].base_rate
            /\ result.quotes[i].interest_rate - result.quotes[i].ltv_premium
                  = result.quotes[j].interest_rate - result.quotes[j].ltv_premium

(***************************************************************************)
(* The deposit shown by the two engines of the analysis.                   *)
(***************************************************************************)
AnalysisCalled == op = "analyse_property"

(* C25: for every price and deposit percent (below 5 and above 100 too)    *)
(* the deposit of total_purchase_cost equals the deposit_amount of         *)
(* calculate_mortgage for the same price and percent.                      *)
C25_SameDepositInBothEngines ==
    AnalysisCalled =>
        /\ Len(result.shown) >= 4
        /\ result.shown[4].deposit = result.shown[1].deposit_amount

(***************************************************************************)
(* The rate-type label of a quote.                                         *)
(***************************************************************************)
(* C26: in every quote the lender_spread is the table entry of the quote's *)
(* own rate_type label, so after a fallback the label names the rate type  *)
(* whose spread was applied.                                               *)
C26_LabelNamesAppliedSpread ==
    (MortgageCalled /\ Returned(result)) =>
        /\ result.rate_type \in DOMAIN LENDER_SPREADS
        /\ result.lender_spread = LENDER_SPREADS[result.rate_type]

(***************************************************************************)
(* First-time-buyer relief against the standard schedule.                  *)
(***************************************************************************)
(* The same call with the other value of first_time_buyer.                 *)
OtherBuyerStatusDuty ==
    calculate_stamp_duty(args.price, ~args.first_time_buyer,
                         args.additional_property)

(* C27: for every price >= 0 and either value of additional_property the   *)
(* stamp_duty with first_time_buyer=True is at most the stamp_duty with    *)
(* first_time_buyer=False.                                                 *)
C27_ReliefNeverIncreasesTax ==
    (StampDutyCalled /\ args.price >= 0) =>
        /\ Returned(result)
        /\ Returned(OtherBuyerStatusDuty)
        /\ IF args.first_time_buyer
           THEN result.stamp_duty <= OtherBuyerStatusDuty.stamp_duty
           ELSE OtherBuyerStatusDuty.stamp_duty <= result.stamp_duty

(***************************************************************************)
(* Malformed zero inputs.                                                  *)
(***************************************************************************)
(* C28: calculate_monthly_repayment with term_years = 0 ends in a          *)
(* division-by-zero error for every loan and rate, and check_affordability *)
(* with annual_income = 0 ends in a division-by-zero error; neither        *)
(* returns a result or a part of one.                                      *)
C28_ZeroInputsRaise ==
    /\ (RepaymentCalled /\ args.term_years = 0) =>
          result = Raise("ZeroDivisionError")
    /\ (AffordabilityCalled /\ args.annual_income = 0) =>
          result = Raise("ZeroDivisionError")

(* The annuity branch reached with a term of 0.                            *)
C28_Witness ==
    /\ RepaymentCalled
    /\ args.term_years = 0
    /\ args.annual_rate_pct = Rate(575)
    /\ args.loan > 0
    /\ result = Raise("ZeroDivisionError")

(***************************************************************************)
(* Properties of search_property_feeds.                                    *)
(***************************************************************************)
FeedsCalled == op = "search_property_feeds"

(* The listings a source delivered, marked with the source.                *)
Delivered(outcome, source) ==
    IF outcome.status = "ok"
    THEN [i \in 1..Len(outcome.items) |-> [outcome.items[i] EXCEPT !.source = source]]
    ELSE <<>>

ListingKey(listing) ==
    <<[text |-> listing.address.text, upper |-> FALSE, padded |-> FALSE],
      listing.price>>

(* The listings of s from index i on that no earlier listing of s shares   *)
(* its key with.                                                           *)
RECURSIVE KeepEarliest(_, _)
KeepEarliest(s, i) ==
    IF i > Len(s) THEN <<>>
    ELSE (IF \A j \in 1..(i - 1) : ListingKey(s[j]) # ListingKey(s[i])
          THEN <<s[i]>> ELSE <<>>) \o KeepEarliest(s, i + 1)

(* The first n entries of s.                                               *)
FirstEntries(s, n) == IF n <= 0 THEN <<>> ELSE SubSeq(s, 1, Min(n, Len(s)))

ExpectedFeedResult(zoopla, nestoria) ==
    FirstEntries(
        KeepEarliest(SelectSeq(zoopla \o nestoria,
                               LAMBDA l : matches(args.criteria, l)), 1),
        args.criteria.max_results)

(* C29: the output is the first max_results entries of the de-duplicated   *)
(* matching listings, Zoopla's before Nestoria's: never more than          *)
(* max_results, only matching listings, no two with the same key, the      *)
(* earliest of each key, and a source that failed or has no key leaves the *)
(* other source's listings in the output.                                  *)
C29_MergedFeeds ==
    FeedsCalled =>
        LET zoopla == Delivered(args.zoopla_outcome, "zoopla")
            nestoria == Delivered(args.nestoria_outcome, "nestoria")
            out == result.listings
        IN  /\ Returned(result)
            /\ Len(out) <= args.criteria.max_results
            /\ out = ExpectedFeedResult(zoopla, nestoria)
            /\ \A i \in DOMAIN out : matches(args.criteria, out[i])
            /\ \A i, j \in DOMAIN out :
                  i # j => ListingKey(out[i]) # ListingKey(out[j])
            /\ args.zoopla_outcome.status # "ok" =>
                  out = ExpectedFeedResult(<<>>, nestoria)
            /\ args.nestoria_outcome.status # "ok" =>
                  out = ExpectedFeedResult(zoopla, <<>>)

(***************************************************************************)
(* Properties of option_area_prices.                                       *)
(***************************************************************************)
AreaPricesCalled == op = "option_area_prices"

TownOnly == AreaPricesCalled /\ ~non_empty(args.postcode) /\ non_empty(args.town)

(* The sales of the registry in the town that was entered.                 *)
TownSales ==
    SelectSeq(args.registry,
              LAMBDA sale : contains(sale.town, strip_upper(args.town)))

(* C30: when only a town name is entered (postcode left blank), the Land   *)
(* Registry is queried with a filter on that town, and the statistics      *)
(* shown are those of the town's sales.                                    *)
C30_TownOnlyLookup ==
    TownOnly =>
        /\ result.requests # <<>>
        /\ \A k \in DOMAIN result.requests :
              \E f \in DOMAIN result.requests[k].filters :
                 /\ result.requests[k].filters[f].on = "town"
                 /\ result.requests[k].filters[f].value = strip_upper(args.town)
        /\ (args.sparql_ok /\ TownSales # <<>>) =>
              /\ result.shown = "Area Price Summary"
              /\ result.stats = stats_of(TownSales)

====
